---- MODULE Spec2Model ----
(***************************************************************************)
(* Model of the memory-sharing application's two units:                    *)
(*   - UploadMemoryDialog (frontend/src/Components/UploadMemoryDialog.js)  *)
(*   - sendMail           (backend/config/mailer.js)                       *)
(*                                                                         *)
(* A JavaScript string is modelled as the sequence of its pieces: a title  *)
(* is a sequence of characters, the result of Array.join is the sequence   *)
(* of the joined elements interleaved with the separator, "" is << >>.     *)
(* Tags themselves are atomic strings.                                     *)
(***************************************************************************)
EXTENDS Integers, Sequences, FiniteSets, TLC

(* ------------------------------ bounds --------------------------------- *)
\* the wall clock is observed in ticks; the model stops the clock at MaxNow
MaxNow == 1
\* number of clock ticks in one UTC calendar day
TicksPerDay == 1
\* longest array of tag records the tagging service returns
MaxAiTags == 2

(* --------------------------- input domains ----------------------------- *)
\* titles the user may type (empty, whitespace only, non-blank)
Titles == { << >>, <<" ">>, <<"a">> }
\* descriptions the user may type
Descriptions == { << >>, <<"d">> }
\* availableTags (lines 6-15), cut down to one representative
availableTags == <<"Birthday">>
\* tags the tagging service may suggest: one on the list, one off it
AiTagNames == {"Birthday", "Outdoor"}
\* the `file` state: null or the File picked in the input
NoFile == "null"
Files == {"photo.jpg"}
\* the `media` member of the upload endpoint's JSON object
Undefined == "undefined"
Medias == {"img1.jpg"}

(* --------------------------- pure helpers ------------------------------ *)
IsSpace(c) == c = " "

RECURSIVE TrimStart(_)
TrimStart(s) ==
  IF s = << >> THEN << >>
  ELSE IF IsSpace(Head(s)) THEN TrimStart(Tail(s)) ELSE s

RECURSIVE TrimEnd(_)
TrimEnd(s) ==
  IF s = << >> THEN << >>
  ELSE IF IsSpace(s[Len(s)]) THEN TrimEnd(SubSeq(s, 1, Len(s) - 1)) ELSE s

\* String.prototype.trim
Trim(s) == TrimEnd(TrimStart(s))

\* a string in a boolean context: "" is falsy
Truthy(s) == s # << >>

\* Array.prototype.includes
Includes(arr, x) == \E i \in DOMAIN arr : arr[i] = x

\* Array.prototype.filter((t) => t !== x)
RECURSIVE FilterNot(_, _)
FilterNot(arr, x) ==
  IF arr = << >> THEN << >>
  ELSE IF Head(arr) # x THEN <<Head(arr)>> \o FilterNot(Tail(arr), x)
       ELSE FilterNot(Tail(arr), x)

\* [...new Set(arr)]: first occurrences, in order
RECURSIVE SetSpread(_)
SetSpread(arr) ==
  IF arr = << >> THEN << >>
  ELSE LET init == SetSpread(SubSeq(arr, 1, Len(arr) - 1))
           x    == arr[Len(arr)]
       IN IF Includes(init, x) THEN init ELSE Append(init, x)

\* the string an array element contributes to join: undefined contributes ""
JoinPiece(x) == IF x = Undefined THEN << >> ELSE <<x>>

\* Array.prototype.join(sep)
RECURSIVE Join(_, _)
Join(arr, sep) ==
  IF arr = << >> THEN << >>
  ELSE IF Len(arr) = 1 THEN JoinPiece(arr[1])
  ELSE JoinPiece(arr[1]) \o <<sep>> \o Join(Tail(arr), sep)

\* new Date().toISOString().split("T")[0]: the UTC calendar day of `t`
ISODate(t) == t \div TicksPerDay

\* a toggle that only ever adds
ToggleTagsAppendOnly(tags, tag) == Append(tags, tag)

\* toggled tag list of handleTagToggle's updater (36-38)
ToggleTags(tags, tag) ==
  IF Includes(tags, tag) THEN FilterNot(tags, tag) ELSE Append(tags, tag)

\* a merge that replaces the tags by the suggested ones
MergeTagsReplace(tags, aiTags) == SetSpread(aiTags)

\* a merge without the Set
MergeTagsConcat(tags, aiTags) == tags \o aiTags

\* data.map((item) => item.tag) followed by the updater of lines 64-67
MergeTags(tags, aiTags) == SetSpread(tags \o aiTags)

\* a default draft whose date is computed once, when the module loads
DefaultFormDataFixedDate(t) ==
  [text |-> << >>, description |-> << >>, upload_date |-> 0, tags |-> << >>]

\* the default draft written by useState (25-30) and handleClose (124-129)
DefaultFormData(t) ==
  [text |-> << >>, description |-> << >>, upload_date |-> ISODate(t), tags |-> << >>]

\* a payload whose tags_input is joined like the callback's tags
BuildFormDataCommaJoined(fd, f) ==
  <<  <<"text", fd.text>>, <<"description", fd.description>> >>
  \o [i \in 1..Len(fd.tags) |-> <<"tags", fd.tags[i]>>]
  \o << <<"tags_input", Join(fd.tags, ", ")>> >>
  \o (IF f # NoFile THEN << <<"files", f>> >> ELSE << >>)

\* FormData built by handleSubmit (86-91): ordered <<name, value>> entries
BuildFormData(fd, f) ==
  <<  <<"text", fd.text>>, <<"description", fd.description>> >>
  \o [i \in 1..Len(fd.tags) |-> <<"tags", fd.tags[i]>>]
  \o << <<"tags_input", Join(fd.tags, " ")>> >>
  \o (IF f # NoFile THEN << <<"files", f>> >> ELSE << >>)

\* Object.fromEntries(entries): the last entry of a name wins
ObjectFromEntries(entries) ==
  [k \in {entries[i][1] : i \in DOMAIN entries} |->
     LET last == CHOOSE i \in DOMAIN entries :
                   /\ entries[i][1] = k
                   /\ \A j \in DOMAIN entries : entries[j][1] = k => j <= i
     IN entries[last][2]]

\* a payload whose tags are joined like tags_input
SuccessPayloadSpaceJoined(entries, tags, media) ==
  LET obj == ObjectFromEntries(entries)
  IN [k \in DOMAIN obj \cup {"tags", "media"} |->
        IF k = "tags" THEN Join(tags, " ")
        ELSE IF k = "media" THEN media
        ELSE obj[k]]

\* object spread {...obj, tags, media} of lines 104-108
SuccessPayload(entries, tags, media) ==
  LET obj == ObjectFromEntries(entries)
  IN [k \in DOMAIN obj \cup {"tags", "media"} |->
        IF k = "tags" THEN Join(tags, ", ")
        ELSE IF k = "media" THEN media
        ELSE obj[k]]

\* the tags of an array, as a set
TagSet(arr) == {arr[i] : i \in DOMAIN arr}

\* sequences over S of length at most n
RECURSIVE SeqsUpTo(_, _)
SeqsUpTo(S, n) ==
  IF n = 0 THEN { << >> }
  ELSE LET shorter == SeqsUpTo(S, n - 1)
       IN shorter \cup { Append(s, x) : s \in shorter, x \in S }

(* ------------------------------- state --------------------------------- *)
VARIABLES
  formData,          \* useState (25-30)
  file,              \* useState (21)
  isUploading,       \* useState (22)
  isGeneratingTags,  \* useState (23)
  now,               \* wall clock, in ticks
  tagReqs,           \* in-flight fetches to the tagging service (their continuation reads no closure variable)
  upReqs,            \* in-flight fetches to /add-media, with the closure of handleSubmit
  last,              \* the handler that ran in the last step
  alerts,            \* alert() calls of the last step, in order
  onSuccessArgs,     \* onSuccess() calls of the last step (their argument)
  onCloseCalls,      \* number of onClose() calls of the last step
  posted             \* requests issued by the last step

formVars == <<formData, file, isUploading, isGeneratingTags, now,
              tagReqs, upReqs, last, alerts, onSuccessArgs, onCloseCalls, posted>>

\* sendMail (backend/config/mailer.js)
VARIABLES
  mailPc,            \* "idle" | "awaiting" (line 10) | "done"
  mailArgs,          \* the arguments of the running call
  mailSent,          \* what resend.emails.send was given
  mailOutcome,       \* how the provider call settled
  mailLog,           \* console lines of the call, in order
  mailPromise        \* the promise the caller holds

mailVars == <<mailPc, mailArgs, mailSent, mailOutcome, mailLog, mailPromise>>

vars == <<formVars, mailVars>>

\* `last` of a step that handles no response
Op(op) ==
  [op |-> op, tag |-> "none", resp |-> "none", aiTags |-> << >>, media |-> Undefined]

\* effects of a step that calls nothing
Quiet(op) ==
  /\ last' = Op(op)
  /\ alerts' = << >>
  /\ onSuccessArgs' = << >>
  /\ onCloseCalls' = 0
  /\ posted' = << >>

\* alert(msg), with the interpolated part of a template literal
Alert(msg, detail) == [msg |-> msg, detail |-> detail]

\* no call of sendMail is running
NoMail == [to |-> "none", from |-> "none", subject |-> "none", html |-> "none"]
NoOutcome == [kind |-> "none", id |-> Undefined, message |-> Undefined]

Init ==
  /\ now \in 0..MaxNow
  /\ formData = DefaultFormData(now)
  /\ file = NoFile
  /\ isUploading = FALSE
  /\ isGeneratingTags = FALSE
  /\ tagReqs = << >>
  /\ upReqs = << >>
  /\ last = Op("init")
  /\ alerts = << >>
  /\ onSuccessArgs = << >>
  /\ onCloseCalls = 0
  /\ posted = << >>
  /\ mailPc = "idle"
  /\ mailArgs = NoMail
  /\ mailSent = NoMail
  /\ mailOutcome = NoOutcome
  /\ mailLog = << >>
  /\ mailPromise = [state |-> "none", value |-> Undefined]

(* ------------------------------ the user ------------------------------- *)
\* time passes
Tick ==
  /\ now < MaxNow
  /\ now' = now + 1
  /\ Quiet("tick")
  /\ UNCHANGED <<formData, file, isUploading, isGeneratingTags, tagReqs, upReqs, mailVars>>

\* onChange of the title input (175-177)
EditTitle ==
  /\ \E v \in Titles :
       /\ v # formData.text
       /\ formData' = [formData EXCEPT !.text = v]
  /\ Quiet("edit")
  /\ UNCHANGED <<file, isUploading, isGeneratingTags, now, tagReqs, upReqs, mailVars>>

\* onChange of the description textarea (201-206)
EditDescription ==
  /\ \E v \in Descriptions :
       /\ v # formData.description
       /\ formData' = [formData EXCEPT !.description = v]
  /\ Quiet("edit")
  /\ UNCHANGED <<file, isUploading, isGeneratingTags, now, tagReqs, upReqs, mailVars>>

\* onChange of the date input (223-228)
EditDate ==
  /\ \E v \in {ISODate(t) : t \in 0..MaxNow} :
       /\ v # formData.upload_date
       /\ formData' = [formData EXCEPT !.upload_date = v]
  /\ Quiet("edit")
  /\ UNCHANGED <<file, isUploading, isGeneratingTags, now, tagReqs, upReqs, mailVars>>

\* onChange of the file input (267)
PickFile ==
  /\ \E f \in Files :
       /\ f # file
       /\ file' = f
  /\ Quiet("edit")
  /\ UNCHANGED <<formData, isUploading, isGeneratingTags, now, tagReqs, upReqs, mailVars>>

\* the tag buttons rendered at line 240
TagButtons == {availableTags[i] : i \in DOMAIN availableTags}
                \cup {formData.tags[i] : i \in DOMAIN formData.tags}

\* handleTagToggle (33-40)
handleTagToggle(tag) ==
  /\ formData' = [formData EXCEPT !.tags = ToggleTags(formData.tags, tag)]
  /\ last' = [Op("toggleTag") EXCEPT !.tag = tag]
  /\ alerts' = << >>
  /\ onSuccessArgs' = << >>
  /\ onCloseCalls' = 0
  /\ posted' = << >>
  /\ UNCHANGED <<file, isUploading, isGeneratingTags, now, tagReqs, upReqs, mailVars>>

ToggleTag ==
  /\ \E tag \in TagButtons : handleTagToggle(tag)

(* ------------------------------- close --------------------------------- *)
\* The isOpen prop (20, 136) belongs to the parent: the model lets the user act
\* whenever a handler is bound, i.e. the parent may show the dialog at any time.
\* a close that forgets setFile(null)
handleCloseKeepsFile ==
  /\ formData' = DefaultFormData(now)
  /\ file' = file

\* state written by handleClose (123-132); its onClose() call is counted by the caller
handleClose ==
  /\ formData' = DefaultFormData(now)
  /\ file' = NoFile

\* a close that also abandons the upload in flight
CloseAbortsUpload ==
  /\ handleClose
  /\ last' = Op("close")
  /\ alerts' = << >>
  /\ onSuccessArgs' = << >>
  /\ onCloseCalls' = 1
  /\ posted' = << >>
  /\ upReqs' = << >>
  /\ isUploading' = FALSE
  /\ UNCHANGED <<isGeneratingTags, now, tagReqs, mailVars>>

\* the X button (151) and the Cancel button (283)
Close ==
  /\ handleClose
  /\ last' = Op("close")
  /\ alerts' = << >>
  /\ onSuccessArgs' = << >>
  /\ onCloseCalls' = 1
  /\ posted' = << >>
  /\ UNCHANGED <<isUploading, isGeneratingTags, now, tagReqs, upReqs, mailVars>>

(* --------------------------- generateTags ------------------------------ *)
\* the JSON body posted to FASTAPI_URL (54-58)
TagRequest(fd) == [title |-> fd.text, description |-> fd.description, top_k |-> 5]

\* a guard that tests for null instead of blank
TagInputMissingNullTest(fd) == FALSE

\* the guard of line 44
TagInputMissing(fd) == ~Truthy(Trim(fd.text)) /\ ~Truthy(Trim(fd.description))

\* handleGenerateTags up to its first await (43-59)
handleGenerateTags ==
  IF TagInputMissing(formData)
  THEN /\ last' = Op("generateTagsBlocked")
       /\ alerts' = << Alert("Please enter a title or description first!", << >>) >>
       /\ onSuccessArgs' = << >>
       /\ onCloseCalls' = 0
       /\ posted' = << >>
       /\ UNCHANGED <<formData, file, isUploading, isGeneratingTags, now, tagReqs, upReqs, mailVars>>
  ELSE /\ isGeneratingTags' = TRUE
       /\ tagReqs' = Append(tagReqs, "predict-tags")
       /\ last' = Op("generateTags")
       /\ alerts' = << >>
       /\ onSuccessArgs' = << >>
       /\ onCloseCalls' = 0
       /\ posted' = << [url |-> "predict-tags", body |-> TagRequest(formData)] >>
       /\ UNCHANGED <<formData, file, isUploading, now, upReqs, mailVars>>

\* the "Generate Tags by AI" button (184-192), disabled while isGeneratingTags
GenerateTags ==
  /\ ~isGeneratingTags
  /\ handleGenerateTags

\* removal of the i-th element
RemoveAt(s, i) == SubSeq(s, 1, i - 1) \o SubSeq(s, i + 1, Len(s))

\* what the tagging service may answer: the fetch rejects, or it resolves with
\* a status and a body that is no JSON, a JSON object, or an array of {tag} records
\* (the records of a non-2xx answer are never read: line 62)
TagResponses ==
  { [net |-> "neterr", ok |-> FALSE, body |-> "none", items |-> << >>] }
  \cup { [net |-> "http", ok |-> ok, body |-> b, items |-> << >>] :
           ok \in BOOLEAN, b \in {"invalid", "object"} }
  \cup { [net |-> "http", ok |-> FALSE, body |-> "array", items |-> << >>] }
  \cup { [net |-> "http", ok |-> TRUE, body |-> "array", items |-> it] :
           it \in SeqsUpTo(AiTagNames, MaxAiTags) }

\* a catch block that only logs to the console
TagAlertsSilentCatch(r) ==
  IF r.net = "neterr" \/ r.body = "invalid" THEN << >>
  ELSE IF ~r.ok
    THEN << Alert("Failed to generate tags from AI", << >>) >>
  ELSE IF r.body # "array" THEN << >>
  ELSE << Alert("AI suggested tags: ", Join(r.items, ", ")) >>

\* the alerts of handleGenerateTags after the fetch settles (60-77)
TagAlerts(r) ==
  IF r.net = "neterr" \/ r.body = "invalid"
    THEN << Alert("Error connecting to AI Tag Generator", << >>) >>
  ELSE IF ~r.ok
    THEN << Alert("Failed to generate tags from AI", << >>) >>
  ELSE IF r.body # "array"
    THEN << Alert("Error connecting to AI Tag Generator", << >>) >>
  ELSE << Alert("AI suggested tags: ", Join(r.items, ", ")) >>

\* the setFormData updater runs only on the res.ok branch with an array body
TagMerges(r) == r.net = "http" /\ r.ok /\ r.body = "array"

\* how the continuation of handleGenerateTags ends: the fetch rejected ("neterr"),
\* res.json() rejected ("unparsable"), the else branch of res.ok ran ("status"),
\* data.map threw ("shape"), or the tags were merged ("ok")
TagOutcome(r) ==
  IF r.net = "neterr" THEN "neterr"
  ELSE IF r.body = "invalid" THEN "unparsable"
  ELSE IF ~r.ok THEN "status"
  ELSE IF r.body # "array" THEN "shape"
  ELSE "ok"

\* a flag cleared only at the end of the try block
FinallyIsGeneratingTagsInTry(r) == ~TagMerges(r)

\* isGeneratingTags after the finally block (75-77)
FinallyIsGeneratingTags(r) == FALSE

\* continuation of handleGenerateTags for request i (60-77)
TagResponse(i, r) ==
  /\ formData' = IF TagMerges(r)
                 THEN [formData EXCEPT !.tags = MergeTags(formData.tags, r.items)]
                 ELSE formData
  /\ isGeneratingTags' = FinallyIsGeneratingTags(r)
  /\ tagReqs' = RemoveAt(tagReqs, i)
  /\ last' = [op |-> IF TagMerges(r) THEN "tagsMerged" ELSE "tagsFailed",
              tag |-> "none", resp |-> TagOutcome(r),
              aiTags |-> IF TagMerges(r) THEN r.items ELSE << >>, media |-> Undefined]
  /\ alerts' = TagAlerts(r)
  /\ onSuccessArgs' = << >>
  /\ onCloseCalls' = 0
  /\ posted' = << >>
  /\ UNCHANGED <<file, isUploading, now, upReqs, mailVars>>

TagResponseArrives ==
  \E i \in DOMAIN tagReqs : \E r \in TagResponses : TagResponse(i, r)

\* item.tag of the elements of a 2xx array that need not hold tag records: a
\* tag, or undefined for an element without a tag member
AiItemTags == AiTagNames \cup {Undefined}

\* TagResponses, and 2xx arrays that are no arrays of tag records: elements
\* without a tag member, or a null element (item.tag throws on it)
LooseTagResponses ==
  TagResponses
  \cup { [net |-> "http", ok |-> TRUE, body |-> "array", items |-> it] :
           it \in SeqsUpTo(AiItemTags, MaxAiTags) }
  \cup { [net |-> "http", ok |-> TRUE, body |-> "arrayOfNull", items |-> << >>] }

LooseTagResponseArrives ==
  \E i \in DOMAIN tagReqs : \E r \in LooseTagResponses : TagResponse(i, r)

(* ------------------------------- submit -------------------------------- *)
\* handleSubmit up to its first await (81-97); `tags` is formData.tags of the closure
handleSubmit ==
  /\ isUploading' = TRUE
  /\ upReqs' = Append(upReqs, [entries |-> BuildFormData(formData, file),
                               tags |-> formData.tags])
  /\ last' = Op("submit")
  /\ alerts' = << >>
  /\ onSuccessArgs' = << >>
  /\ onCloseCalls' = 0
  /\ posted' = << [url |-> "add-media", body |-> BuildFormData(formData, file)] >>
  /\ UNCHANGED <<formData, file, isGeneratingTags, now, tagReqs, mailVars>>

\* a submit button that is never disabled
SubmitNeverDisabled == handleSubmit

\* the "Upload Memory" submit button (288-294), disabled while isUploading
Submit ==
  /\ ~isUploading
  /\ handleSubmit

\* what the upload endpoint may answer: the fetch rejects, or it resolves with
\* a status and a body that is no JSON, JSON null, or a JSON object
UploadResponses ==
  { [net |-> "neterr", ok |-> FALSE, body |-> "none", media |-> Undefined] }
  \cup { [net |-> "http", ok |-> ok, body |-> b, media |-> Undefined] :
           ok \in BOOLEAN, b \in {"invalid", "null"} }
  \cup { [net |-> "http", ok |-> ok, body |-> "object", media |-> m] :
           ok \in BOOLEAN, m \in Medias \cup {Undefined} }

\* res.json() resolved and res.ok: lines 102-103 are reached
UploadOk(r) == r.net = "http" /\ r.body # "invalid" /\ r.ok

\* a success branch taken without testing res.ok
UploadSucceedsIgnoresStatus(r) == r.net = "http" /\ r.body = "object"

\* urlImage.media is readable: lines 104-109 run
UploadSucceeds(r) == UploadOk(r) /\ r.body = "object"

\* how the continuation of handleSubmit ends: the fetch rejected ("neterr"),
\* res.json() rejected ("unparsable"), the else branch of res.ok ran ("status"),
\* urlImage.media threw on null ("shape"), or handleClose was reached ("ok")
UploadOutcome(r) ==
  IF r.net = "neterr" THEN "neterr"
  ELSE IF r.body = "invalid" THEN "unparsable"
  ELSE IF ~r.ok THEN "status"
  ELSE IF r.body # "object" THEN "shape"
  ELSE "ok"

\* the alerts of handleSubmit after the fetch settles (99-119); on the else
\* branch res.text() rejects because res.json() has consumed the body
UploadAlerts(r) ==
  IF UploadSucceeds(r) THEN << Alert("Memory uploaded successfully!", << >>) >>
  ELSE IF UploadOk(r) THEN << Alert("Memory uploaded successfully!", << >>),
                              Alert("Something went wrong while uploading", << >>) >>
  ELSE << Alert("Something went wrong while uploading", << >>) >>

\* a flag cleared only at the end of the try block
FinallyIsUploadingInTry(r) == ~UploadSucceeds(r)

\* isUploading after the finally block (117-119)
FinallyIsUploading(r) == FALSE

\* a continuation that reads the tags of the draft as it is on arrival
ClosureTagsLive(req) == formData.tags

\* formData.tags on line 106: the formData constant of the render in which the
\* submit was triggered, captured by the handler's closure
ClosureTags(req) == req.tags

\* continuation of handleSubmit for request i (99-119)
UploadResponse(i, r) ==
  /\ IF UploadSucceeds(r)
     THEN /\ onSuccessArgs' = << SuccessPayload(upReqs[i].entries, ClosureTags(upReqs[i]), r.media) >>
          /\ handleClose
          /\ onCloseCalls' = 1
     ELSE /\ onSuccessArgs' = << >>
          /\ onCloseCalls' = 0
          /\ UNCHANGED <<formData, file>>
  /\ isUploading' = FinallyIsUploading(r)
  /\ upReqs' = RemoveAt(upReqs, i)
  /\ last' = [op |-> IF UploadSucceeds(r) THEN "uploadSucceeded" ELSE "uploadFailed",
              tag |-> "none", resp |-> UploadOutcome(r),
              aiTags |-> << >>, media |-> IF UploadSucceeds(r) THEN r.media ELSE Undefined]
  /\ alerts' = UploadAlerts(r)
  /\ posted' = << >>
  /\ UNCHANGED <<isGeneratingTags, now, tagReqs, mailVars>>

UploadResponseArrives ==
  \E i \in DOMAIN upReqs : \E r \in UploadResponses : UploadResponse(i, r)

Next ==
  \/ Tick
  \/ EditTitle
  \/ EditDescription
  \/ EditDate
  \/ PickFile
  \/ ToggleTag
  \/ Close
  \/ GenerateTags
  \/ TagResponseArrives
  \/ Submit
  \/ UploadResponseArrives

Spec == Init /\ [][Next]_vars

\* the handlers that start, settle or could disturb a request (the draft is
\* edited through its title and tags only)
FlowNext ==
  \/ EditTitle
  \/ ToggleTag
  \/ Close
  \/ GenerateTags
  \/ TagResponseArrives
  \/ Submit
  \/ UploadResponseArrives

\* every fetch settles: the network answers or fails each request in the end
FairSpec ==
  /\ Init
  /\ [][FlowNext]_vars
  /\ WF_vars(TagResponseArrives)
  /\ WF_vars(UploadResponseArrives)

\* the tagging workflow alone, with a tagging service that may answer any array
TagNext ==
  \/ EditTitle
  \/ EditDescription
  \/ ToggleTag
  \/ Close
  \/ GenerateTags
  \/ LooseTagResponseArrives

TagSpec == Init /\ [][TagNext]_vars

(* ------------------------------ sendMail ------------------------------- *)
MailTo == {"ann@example.org", "bob@example.org"}
MailFrom == {"noreply@example.org", "team@example.org"}
MailSubjects == {"Welcome", "Reset"}
MailHtml == {"<p>hi</p>", "<b>hi</b>"}
MessageIds == {"id-1", "id-2"}
ErrorMessages == {"fetch failed", "invalid from address"}

\* how resend.emails.send may settle: it resolves with {data: {id}} ("sent"),
\* with a response that carries no data.id ("noId"), with the provider's refusal
\* in the response, {data: null, error: {message}} ("refused"), or it throws /
\* rejects with an Error ("thrown")
ProviderOutcomes ==
  { [kind |-> "sent", id |-> i, message |-> Undefined] : i \in MessageIds }
  \cup { [kind |-> "noId", id |-> Undefined, message |-> Undefined] }
  \cup { [kind |-> k, id |-> Undefined, message |-> m] :
           k \in {"refused", "thrown"}, m \in ErrorMessages }

\* response.data?.id || "OK" (line 18)
SentLabel(o) == IF o.kind = "sent" THEN o.id ELSE "OK"

\* the console lines of lines 16-20
MailLogLines(o) ==
  IF o.kind = "thrown"
  THEN << [level |-> "error", text |-> "Email error:", arg |-> o.message] >>
  ELSE << [level |-> "log", text |-> "response", arg |-> o.kind],
          [level |-> "log", text |-> "Email sent:", arg |-> SentLabel(o)] >>

\* sendMail up to its await (8-15)
sendMail(to, from, subject, html) ==
  /\ mailPc' = "awaiting"
  /\ mailArgs' = [to |-> to, from |-> from, subject |-> subject, html |-> html]
  /\ mailSent' = [from |-> from, to |-> to, subject |-> subject, html |-> html]
  /\ mailOutcome' = NoOutcome
  /\ mailLog' = << >>
  /\ mailPromise' = [state |-> "pending", value |-> Undefined]
  /\ UNCHANGED formVars

SendMailCall ==
  /\ mailPc # "awaiting"
  /\ \E to \in MailTo, from \in MailFrom, subject \in MailSubjects, html \in MailHtml :
       sendMail(to, from, subject, html)

\* the rest of sendMail once the provider call settles (16-22): the async
\* function falls off its end, so its promise fulfils with undefined
ProviderSettles ==
  /\ mailPc = "awaiting"
  /\ \E o \in ProviderOutcomes :
       /\ mailOutcome' = o
       /\ mailLog' = MailLogLines(o)
  /\ mailPromise' = [state |-> "fulfilled", value |-> Undefined]
  /\ mailPc' = "done"
  /\ UNCHANGED <<mailArgs, mailSent, formVars>>

MailNext ==
  \/ SendMailCall
  \/ ProviderSettles

MailSpec == Init /\ [][MailNext]_vars

(* ------------------------------- claims -------------------------------- *)
ValidationAlert == Alert("Please enter a title or description first!", << >>)
UploadFailureAlert == Alert("Something went wrong while uploading", << >>)

\* C1: a step that handles a failed upload (network exception, unparsable body,
\* non-2xx status, or a body whose media cannot be read) leaves title,
\* description, uploadDate, tags and file as they were and ends with
\* isUploading false.
C1_FailedSubmitKeepsDraft ==
  [][last'.op = "uploadFailed" =>
       /\ formData' = formData
       /\ file' = file
       /\ isUploading' = FALSE]_vars

\* a non-2xx answer was handled and the populated draft is still there
C1_Witness ==
  /\ last.op = "uploadFailed"
  /\ last.resp = "status"
  /\ formData.text = <<"a">>
  /\ formData.tags = <<"Birthday">>
  /\ file \in Files
  /\ ~isUploading

\* C2: right after a successful upload completion the draft has its default
\* shape: empty title and description, no tags, no file, and the upload date is
\* the (UTC) date of the clock at that moment.
C2_SuccessResetsDraft ==
  last.op = "uploadSucceeded" =>
    /\ formData.text = << >>
    /\ formData.description = << >>
    /\ formData.tags = << >>
    /\ formData.upload_date = now \div TicksPerDay
    /\ file = NoFile

\* an upload of a populated draft succeeded after the clock had advanced
C2_Witness ==
  /\ last.op = "uploadSucceeded"
  /\ now = MaxNow
  /\ Len(onSuccessArgs) = 1
  /\ onSuccessArgs[1]["text"] = <<"a">>
  /\ onSuccessArgs[1]["tags"] # << >>
  /\ "files" \in DOMAIN onSuccessArgs[1]
  /\ formData.tags = << >>

\* C3: when the tagging answer is handled right after a successful upload has
\* reset the draft (no user action in between), the draft's tags are still empty.
C3_LateAiTagsDiscarded ==
  [][(last.op = "uploadSucceeded" /\ last'.op = "tagsMerged") =>
       formData'.tags = << >>]_vars

\* C4 (as stated): the two busy flags are never true together.
C4_FlagsMutuallyExclusive == ~(isGeneratingTags /\ isUploading)

\* C4 (amended): the busy flags are independent, each is true exactly while a
\* request of its own kind is in flight, so the controller is idle, generating
\* tags, uploading, or generating tags and uploading at once.
C4_FlagsFollowOwnRequest ==
  /\ isGeneratingTags = (tagReqs # << >>)
  /\ isUploading = (upReqs # << >>)

\* a tagging request and an upload are in flight together, both flags set
C4_Witness ==
  /\ isGeneratingTags
  /\ isUploading
  /\ tagReqs # << >>
  /\ upReqs # << >>

\* C5: a generateTags step taken while title and description are both empty
\* posts nothing, shows exactly the validation alert, does not set
\* isGeneratingTags and changes neither the draft nor the file.
C5_EmptyInputBlocksTagging ==
  [][(/\ last'.op \in {"generateTags", "generateTagsBlocked"}
      /\ formData.text = << >>
      /\ formData.description = << >>) =>
       /\ posted' = << >>
       /\ tagReqs' = tagReqs
       /\ alerts' = << ValidationAlert >>
       /\ isGeneratingTags' = FALSE
       /\ formData' = formData
       /\ file' = file]_vars

\* generateTags was clicked on a draft with empty title and description
C5_Witness ==
  /\ last.op = "generateTagsBlocked"
  /\ formData.text = << >>
  /\ formData.description = << >>
  /\ alerts = << ValidationAlert >>
  /\ formData.tags # << >>

\* C6: a step that merges suggested tags keeps every tag the draft had just
\* before, and the resulting tag set is the union of those and the returned tags.
C6_MergeIsUnion ==
  [][last'.op = "tagsMerged" =>
       /\ TagSet(formData.tags) \subseteq TagSet(formData'.tags)
       /\ TagSet(formData'.tags) = TagSet(formData.tags) \cup TagSet(last'.aiTags)]_vars

\* a manual tag survived the merge of a response that suggested another one
C6_Witness ==
  /\ last.op = "tagsMerged"
  /\ last.aiTags = <<"Outdoor">>
  /\ formData.tags = <<"Birthday", "Outdoor">>

\* C7: after a toggleTag(tag) step, toggling the same tag once more gives back
\* the tag set the draft had before the step.
C7_DoubleToggleRestores ==
  [][last'.op = "toggleTag" =>
       TagSet(ToggleTags(formData'.tags, last'.tag)) = TagSet(formData.tags)]_vars

\* a selected tag was toggled off while another tag stays selected
C7_Witness ==
  /\ last.op = "toggleTag"
  /\ last.tag = "Birthday"
  /\ formData.tags = <<"Outdoor">>

\* C8: the draft's tags never contain the same tag twice.
C8_NoDuplicateTags ==
  \A i, j \in DOMAIN formData.tags : formData.tags[i] = formData.tags[j] => i = j

\* a response that repeats a tag the draft already has was merged
C8_Witness ==
  /\ last.op = "tagsMerged"
  /\ last.aiTags = <<"Birthday", "Birthday">>
  /\ formData.tags = <<"Outdoor", "Birthday">>

\* C9: submit records the draft's title, description and tags in the request;
\* the step that handles its successful answer calls onSuccess once, with the
\* recorded title and description, tags = the recorded tags joined with ", "
\* ("" when there are none) and media = the media of the JSON answer.
C9_SuccessPayload ==
  [][/\ last'.op = "submit" =>
          /\ Len(upReqs') = Len(upReqs) + 1
          /\ upReqs'[Len(upReqs')].entries[1] = <<"text", formData.text>>
          /\ upReqs'[Len(upReqs')].entries[2] = <<"description", formData.description>>
          /\ upReqs'[Len(upReqs')].tags = formData.tags
     /\ last'.op = "uploadSucceeded" =>
          /\ Len(onSuccessArgs') = 1
          /\ \E i \in DOMAIN upReqs :
               LET p == onSuccessArgs'[1]
                   q == upReqs[i]
               IN /\ upReqs' = RemoveAt(upReqs, i)
                  /\ {"text", "description", "tags", "media"} \subseteq DOMAIN p
                  /\ p["text"] = q.entries[1][2]
                  /\ p["description"] = q.entries[2][2]
                  /\ p["tags"] = Join(q.tags, ", ")
                  /\ (q.tags = << >> => p["tags"] = << >>)
                  /\ p["media"] = last'.media]_vars

\* the spec's example: a titled draft with a file and no tags was uploaded and
\* the endpoint answered {media: "img1.jpg"}
C9_Witness ==
  /\ last.op = "uploadSucceeded"
  /\ Len(onSuccessArgs) = 1
  /\ onSuccessArgs[1]["text"] = <<"a">>
  /\ onSuccessArgs[1]["tags"] = << >>
  /\ onSuccessArgs[1]["media"] = "img1.jpg"
  /\ "files" \in DOMAIN onSuccessArgs[1]

C11_CloseResetsAnytime ==
  /\ ENABLED Close
  /\ last.op = "close" =>
       /\ formData = [text |-> << >>, description |-> << >>,
                      upload_date |-> now \div TicksPerDay, tags |-> << >>]
       /\ file = NoFile
       /\ onCloseCalls = 1
       /\ onSuccessArgs = << >>

\* close was taken while a tagging request and an upload carrying a file were in flight
C11_Witness ==
  /\ last.op = "close"
  /\ tagReqs # << >>
  /\ upReqs # << >>
  /\ "files" \in DOMAIN ObjectFromEntries(upReqs[1].entries)
  /\ file = NoFile
  /\ onCloseCalls = 1

TagFailureAlerts ==
  { << Alert("Failed to generate tags from AI", << >>) >>,
    << Alert("Error connecting to AI Tag Generator", << >>) >> }

\* C12 (as stated): a step that handles a tagging answer which is a network
\* exception, a non-2xx response or a body that is not a JSON array of tag
\* records shows one generic failure alert and leaves the draft and the file
\* as they were.
C12_TagFailureKeepsDraft ==
  [][(/\ last'.op \in {"tagsFailed", "tagsMerged"}
      /\ (last'.resp # "ok" \/ Includes(last'.aiTags, Undefined))) =>
       /\ formData' = formData
       /\ file' = file
       /\ alerts' \in TagFailureAlerts]_vars

\* C12 (amended): a step that handles a network exception, a body that is no
\* JSON, a non-2xx response, or a 2xx body that is no array or holds a null
\* element shows one generic failure alert and leaves the draft and the file
\* as they were; a 2xx array of objects is always merged, an element without a
\* tag member contributing the tag undefined.
C12_TagFailureKeepsDraftAmended ==
  [][/\ last'.op = "tagsFailed" =>
          /\ last'.resp \in {"neterr", "unparsable", "status", "shape"}
          /\ formData' = formData
          /\ file' = file
          /\ alerts' \in TagFailureAlerts
     /\ last'.op = "tagsMerged" =>
          /\ TagSet(formData'.tags) = TagSet(formData.tags) \cup TagSet(last'.aiTags)
          /\ Len(alerts') = 1
          /\ alerts'[1].msg = "AI suggested tags: "]_vars

\* a 2xx answer that is no array was handled and the tagged draft is still there
C12_Witness ==
  /\ last.op = "tagsFailed"
  /\ last.resp = "shape"
  /\ formData.tags = <<"Birthday">>
  /\ formData.text = <<"a">>
  /\ ~isGeneratingTags

\* C13: each busy flag is true exactly while a request of its own kind is in
\* flight: only starting or completing that request changes it, every
\* completion (success, HTTP failure, exception) clears it, close leaves both
\* flags as they are, and when every request settles a set flag is cleared
\* in the end.
C13_FlagsFollowRequests ==
  /\ [](isUploading <=> Len(upReqs) > 0)
  /\ [](isGeneratingTags <=> Len(tagReqs) > 0)
  /\ [][/\ isUploading' # isUploading =>
              last'.op \in {"submit", "uploadSucceeded", "uploadFailed"}
        /\ isGeneratingTags' # isGeneratingTags =>
              last'.op \in {"generateTags", "tagsMerged", "tagsFailed"}
        /\ last'.op \in {"uploadSucceeded", "uploadFailed"} => ~isUploading'
        /\ last'.op \in {"tagsMerged", "tagsFailed"} => ~isGeneratingTags'
        /\ last'.op = "close" =>
              /\ isUploading' = isUploading
              /\ isGeneratingTags' = isGeneratingTags]_vars
  /\ (isUploading ~> ~isUploading)
  /\ (isGeneratingTags ~> ~isGeneratingTags)

\* close was taken during an upload and both flags are still set afterwards
C13_Witness ==
  /\ last.op = "close"
  /\ isUploading
  /\ isGeneratingTags
  /\ formData.tags = << >>
  /\ Len(upReqs) = 1
  /\ upReqs[1].tags # << >>

\* C14: at most one upload and at most one tagging request are in flight; an
\* operation cannot be started again while its own flag is set, and it can be
\* started whenever its own flag is clear, whatever the other flag is.
C14_OneRequestPerKind ==
  /\ Len(upReqs) <= 1
  /\ Len(tagReqs) <= 1
  /\ (ENABLED Submit) <=> ~isUploading
  /\ (ENABLED GenerateTags) <=> ~isGeneratingTags

\* a tagging request was started while an upload was already in flight
C14_Witness ==
  /\ last.op = "generateTags"
  /\ Len(tagReqs) = 1
  /\ Len(upReqs) = 1
  /\ isUploading
  /\ Len(posted) = 1
  /\ posted[1].url = "predict-tags"

UploadOps == {"uploadSucceeded", "uploadFailed"}

\* C15: a step calls onSuccess at most once, and only when it handles a 2xx
\* answer of the upload endpoint; a step that handles a non-2xx answer, a
\* rejected fetch or an unparsable body calls neither onSuccess nor onClose and
\* shows exactly one alert, the generic failure alert, after which submit can
\* be triggered again.
C15_CallbackOnlyOnSuccess ==
  /\ Len(onSuccessArgs) <= 1
  /\ onSuccessArgs # << >> => (last.op = "uploadSucceeded" /\ last.resp = "ok")
  /\ (last.op \in UploadOps /\ last.resp \in {"status", "neterr", "unparsable"}) =>
       /\ onSuccessArgs = << >>
       /\ onCloseCalls = 0
       /\ alerts = << UploadFailureAlert >>
       /\ ENABLED Submit
  /\ (last.op \in UploadOps /\ last.resp = "shape") =>
       /\ onSuccessArgs = << >>
       /\ onCloseCalls = 0
       /\ Len(alerts) = 2
       /\ alerts[2] = UploadFailureAlert

\* the fetch of a populated draft was rejected and nothing was called back
C15_Witness ==
  /\ last.op = "uploadFailed"
  /\ last.resp = "neterr"
  /\ formData.text = <<"a">>
  /\ formData.description = <<"d">>
  /\ file \in Files
  /\ alerts = << UploadFailureAlert >>
  /\ onCloseCalls = 0

(* ------------------------------- C16 ----------------------------------- *)
\* the fields of a multipart body that carry the given name, in body order
FieldsNamed(body, name) ==
  LET idx == {i \in DOMAIN body : body[i][1] = name}
      RECURSIVE Pick(_)
      Pick(i) == IF i > Len(body) THEN << >>
                 ELSE IF i \in idx THEN <<body[i][2]>> \o Pick(i + 1)
                 ELSE Pick(i + 1)
  IN Pick(1)

\* str is the elements of arr with exactly one " " between neighbours
SpaceSeparated(str, arr) ==
  /\ Len(str) = IF arr = << >> THEN 0 ELSE 2 * Len(arr) - 1
  /\ \A i \in DOMAIN arr : str[2 * i - 1] = arr[i]
  /\ \A i \in 1..(Len(arr) - 1) : str[2 * i] = " "

\* C16: a submit() issues exactly one POST, to the upload endpoint, whose
\* multipart body carries text = title, description = description, one tags
\* field per tag of the draft in draft order, tags_input = the tags separated
\* by single spaces, and a files field exactly when a file is selected; no
\* other step posts to the upload endpoint.
C16_PayloadMatchesDraft ==
  /\ last.op = "submit" =>
       /\ Len(posted) = 1
       /\ posted[1].url = "add-media"
       /\ LET body == posted[1].body
          IN /\ FieldsNamed(body, "text") = << formData.text >>
             /\ FieldsNamed(body, "description") = << formData.description >>
             /\ FieldsNamed(body, "tags") = formData.tags
             /\ Len(FieldsNamed(body, "tags_input")) = 1
             /\ SpaceSeparated(FieldsNamed(body, "tags_input")[1], formData.tags)
             /\ FieldsNamed(body, "files") =
                  (IF file = NoFile THEN << >> ELSE << file >>)
             /\ \A i \in DOMAIN body :
                  body[i][1] \in {"text", "description", "tags", "tags_input", "files"}
  /\ last.op # "submit" => \A i \in DOMAIN posted : posted[i].url # "add-media"

\* a submit of a draft holding two tags and a file
C16_Witness ==
  /\ last.op = "submit"
  /\ Len(formData.tags) = 2
  /\ formData.text = <<"a">>
  /\ file \in Files
  /\ Len(posted) = 1

(* ------------------------------- C17 ----------------------------------- *)
\* the only value of the named field of a multipart body
Field(body, name) == FieldsNamed(body, name)[1]

\* C17: the request started by a submit holds the body posted by that submit
\* and the tags of the draft at that moment; no edit, toggle, file pick, AI
\* merge or close that happens while the request is in flight changes what the
\* request holds; when the upload succeeds, the callback payload is made of
\* the request's body and tags only, and the draft, whatever it has become,
\* is reset to its defaults.
C17_PayloadsAreSubmitSnapshot ==
  [][ /\ last'.op = "submit" =>
           /\ Len(posted') = 1
           /\ posted'[1].body = BuildFormData(formData, file)
           /\ upReqs' = Append(upReqs, [entries |-> posted'[1].body,
                                         tags |-> formData.tags])
      /\ last'.op \notin {"submit", "uploadSucceeded", "uploadFailed"} =>
           upReqs' = upReqs
      /\ last'.op = "uploadSucceeded" =>
           /\ Len(upReqs) = 1
           /\ Len(onSuccessArgs') = 1
           /\ LET req == upReqs[1]
                  arg == onSuccessArgs'[1]
              IN /\ arg.text = Field(req.entries, "text")
                 /\ arg.description = Field(req.entries, "description")
                 /\ arg.tags_input = Field(req.entries, "tags_input")
                 /\ arg.tags = Join(req.tags, ", ")
                 /\ ("files" \in DOMAIN arg) = (FieldsNamed(req.entries, "files") # << >>)
                 /\ "files" \in DOMAIN arg => arg.files = Field(req.entries, "files")
           /\ formData' = DefaultFormData(now)
           /\ file' = NoFile
    ]_vars

\* an upload is in flight and an AI merge has just made the draft differ, in
\* title and in tags, from what the request holds
C17_Witness ==
  /\ Len(upReqs) = 1
  /\ last.op = "tagsMerged"
  /\ formData.tags # upReqs[1].tags
  /\ formData.text # Field(upReqs[1].entries, "text")
  /\ Field(upReqs[1].entries, "text") = <<"a">>

(* ------------------------------- C18 ----------------------------------- *)
\* C18: every step that handles a successful answer to an upload calls the
\* success callback once, resets the draft and the file, and signals the parent
\* to close, whatever the draft and the flags were before it. A close() during
\* the flight signals the parent and leaves the request outstanding, so the
\* answer to the same submit signals the parent again (in particular when it is
\* handled right after that close), and a draft filled in after the close is
\* reset by the answer.
C18_SuccessAlwaysClosesAndResets ==
  [][ /\ (last'.op \in UploadOps /\ last'.resp = "ok") =>
           /\ Len(upReqs) = 1
           /\ upReqs' = << >>
           /\ Len(onSuccessArgs') = 1
           /\ onCloseCalls' = 1
           /\ formData' = DefaultFormData(now)
           /\ file' = NoFile
      /\ (last'.op = "close" /\ upReqs # << >>) =>
           /\ onCloseCalls' = 1
           /\ upReqs' = upReqs
           /\ isUploading' = isUploading
      /\ (last.op = "close" /\ upReqs # << >> /\ last'.op \in UploadOps /\ last'.resp = "ok") =>
           /\ onCloseCalls = 1
           /\ onCloseCalls' = 1
    ]_vars

\* close() has just been called while only an upload is in flight
C18_Witness ==
  /\ last.op = "close"
  /\ Len(upReqs) = 1
  /\ tagReqs = << >>
  /\ ~isGeneratingTags
  /\ isUploading
  /\ onCloseCalls = 1
  /\ Field(upReqs[1].entries, "text") = <<"a">>
  /\ formData = DefaultFormData(now)

====
